---- MODULE Spec2Model ----
(***************************************************************************)
(* Model of the motion-detection pipeline:                                 *)
(*   - OpenCVDetector.process_images and its consumer callback             *)
(*     (src/src/detector/model/opencv_detector.py), checked under          *)
(*     DetectorSpec;                                                       *)
(*   - OpenCVDisplayer.play, __consumer and __callback                     *)
(*     (src/src/displayer/model/opencv_displayer.py), checked under        *)
(*     DisplayerSpec;                                                      *)
(*   - Controller.process_url with OpenCVStreamer.process_url              *)
(*     (src/src/streamer/controller/controller.py and                      *)
(*     src/src/streamer/model/opencv_streamer.py), checked under           *)
(*     ControllerSpec.                                                     *)
(* The stages are separate processes that share nothing but the broker,    *)
(* so each specification moves only its own stage's variables.             *)
(***************************************************************************)
EXTENDS Integers, Sequences, FiniteSets, TLC

(***************************************************************************)
(* Bounds of the exploration.                                              *)
(***************************************************************************)
MaxMsgs == 4          \* bodies published to the frames queue
MaxSessions == 2      \* videos streamed through the frames queue
MaxRecords == 3       \* bodies published to the detections queue
MaxPlays == 2         \* invocations of OpenCVDisplayer.play() (requests to /video)
MaxTail == 2          \* characters of a URL after its scheme part
MaxFrames == 2        \* frames of a submitted video
ExtraTicks == 1       \* ticks the clock runs on after the first sleep(3) can end

\* Constructor arguments of OpenCVDisplayer (opencv_displayer.py:40); the model
\* explores small values of both.
BufferSize == 2       \* buffer_size
Fps == 1              \* fps

(***************************************************************************)
(* Program constants.                                                      *)
(***************************************************************************)
\* index of the file name "frame_000000.jpg" (opencv_detector.py:145)
AnchorName == 0

\* basic_qos(prefetch_count=1) (opencv_detector.py:154)
PrefetchCount == 1

\* the area a contour is compared with (opencv_detector.py:126)
MinArea == 500

\* The file-name index a video's first announced frame may carry: the streamer
\* numbers from 0 (opencv_streamer.py:89,94); any other producer of the frames
\* queue may start elsewhere.
FirstNames == {0, 1}

\* sleep(3) (opencv_displayer.py:165), in seconds
SleepSeconds == 3

\* The clock counts pacing intervals: one tick is self.delay = 1 / fps seconds
\* (opencv_displayer.py:46).
DelayTicks == 1
SleepTicks == SleepSeconds * Fps

\* the clock stops advancing here
MaxTime == SleepTicks + ExtraTicks

NoFrame == <<0, 0 - 1>>      \* Python None for previous_frame / path
NoMsg == 0                   \* no delivery in flight

VARIABLES
    \* ---- frames queue (broker side) ----
    framesQ,        \* ready bodies, head is delivered next
    published,      \* number of bodies published so far (delivery ids 1..published)
    body,           \* body[id]: what was published under delivery id
    session,        \* number of videos whose first frame has been announced
    lastName,       \* file-name index of the last announced frame of the video
    ackCount,       \* ackCount[id]: basic_ack calls made for delivery id
    \* ---- detector process ----
    pc,             \* position of process_images / callback
    inflight,       \* delivery id the callback is working on (unacked), or NoMsg
    delivered, \* deliveries the broker has sent that wait for callback
    previous_frame, \* closure variable previous_frame (a frame or NoFrame)
    previous_frame_path,
    connOpen,       \* which of the two connections opened at lines 97-98 are open
    detections,     \* records published to the detections queue, in order
    compared,       \* deliveries for which line 111 found a frame in the slot
    error,          \* the exception that left the callback / start_consuming
    outcome,        \* outcome[id]: how the callback invocation for id ended:
                    \* "none" (not ended), "returned" or "raised"
    lastDecoded     \* the decodable frame whose callback last ran to completion

detVars == <<framesQ, published, body, session, lastName, ackCount, pc, inflight,
             delivered, previous_frame, previous_frame_path, connOpen, detections,
             compared, error, outcome, lastDecoded>>

VARIABLES
    \* ---- detections queue (broker side) ----
    now,            \* time.time(), in ticks
    dQ,             \* ready bodies of the detections queue
    dPublished,     \* number of bodies published to it (delivery ids 1..dPublished)
    dFrame,         \* dFrame[id]: the frame the record under delivery id names
    dAck,           \* dAck[id]: basic_ack calls made for id
    dOutcome,       \* dOutcome[id]: how __callback ended for id: "none" (not ended),
                    \* "raised", "dropped" (undecodable image) or "buffered"
    \* ---- displayer process ----
    buffer_size,    \* self.buffer_size, the constructor argument
    buffer,         \* self.buffer, front first
    appended,       \* every frame ever appended to self.buffer, in order
    plays,          \* play() invocations so far
    cpc,            \* cpc[p]: position of the consumer thread started by play p
    cIn,            \* cIn[p]: the delivery that thread's __callback works on
    cConn,          \* cConn[p]: that thread's connection is open
    ppc,            \* ppc[p]: position of the generator body of play p
    nft,            \* nft[p]: its local next_frame_time
    released,       \* frames yielded, in order: [frame, at, by, lenBefore, afterStop]
    dqOwner,        \* self.detections_queue: 0 for None, else the play whose
                    \* consumer thread assigned its channel last
    stopReq,        \* consumers whose channel got stop_consuming() and whose
                    \* start_consuming() has not returned yet
    stopped         \* stop() has been called

brokerVars == <<dQ, dPublished, dFrame>>
consumerVars == <<dAck, dOutcome, cpc, cIn, cConn>>
playVars == <<ppc, nft, released>>
stopVars == <<dqOwner, stopReq, stopped>>
dispVars == <<now, brokerVars, consumerVars, buffer_size, buffer, appended, plays,
              playVars, stopVars>>

VARIABLES
    \* ---- one call of Controller.process_url ----
    url,            \* the argument, a sequence of characters
    ctlPc,          \* position of the call, inside the streamer model included
    ctlError,       \* the exception that left Controller.process_url
    invoked,        \* arguments of the calls of model.process_url, in order
    folders,        \* output folders created
    frame_count,    \* frames written, which is the local frame_count
    announced       \* frame numbers published to the frames queue, in order

ctlVars == <<url, ctlPc, ctlError, invoked, folders, frame_count, announced>>

vars == <<detVars, dispVars, ctlVars>>

Ids == 1..MaxMsgs

\* A frame is identified by its video and its file-name index; the path
\* <root>/<uuid>/frame_<index>.jpg carries exactly these two
\* (opencv_streamer.py:74,94-95).
FramePath(s, n) == <<s, n>>

\* os.path.split(frame_path)[1] (opencv_detector.py:145) as the index of the name
FileName(path) == path[2]

MalformedBody == [kind |-> "malformed", frame_path |-> NoFrame, frame_number |-> 0 - 1,
                  readable |-> FALSE, first |-> FALSE]

FrameBody(s, n, readable, first) ==
    [kind |-> "frame", frame_path |-> FramePath(s, n), frame_number |-> n,
     readable |-> readable, first |-> first]

DetInit ==
    /\ framesQ = <<>>
    /\ published = 0
    /\ body = [i \in Ids |-> MalformedBody]
    /\ session = 0
    /\ lastName = 0 - 1
    /\ ackCount = [i \in Ids |-> 0]
    /\ pc = "init"
    /\ inflight = NoMsg
    /\ delivered = <<>>
    /\ previous_frame = NoFrame
    /\ previous_frame_path = NoFrame
    /\ connOpen = [frames |-> FALSE, detections |-> FALSE]
    /\ detections = <<>>
    /\ compared = {}
    /\ error = "none"
    /\ outcome = [i \in Ids |-> "none"]
    /\ lastDecoded = NoFrame

(***************************************************************************)
(* Producers of the frames queue.                                          *)
(***************************************************************************)
Enqueue(b) ==
    /\ published < MaxMsgs
    /\ published' = published + 1
    /\ body' = [body EXCEPT ![published + 1] = b]
    /\ framesQ' = Append(framesQ, published + 1)

\* The first frame of a new video is announced (opencv_streamer.py:74-110 with
\* frame_count = 0, or another producer starting at a later file name).
AnnounceFirst ==
    /\ session < MaxSessions
    /\ \E n \in FirstNames, readable \in BOOLEAN :
          /\ Enqueue(FrameBody(session + 1, n, readable, TRUE))
          /\ lastName' = n
    /\ session' = session + 1
    /\ UNCHANGED <<ackCount, pc, inflight, delivered, previous_frame,
                   previous_frame_path, connOpen, detections, compared, error,
                   outcome, lastDecoded, dispVars, ctlVars>>

\* The next frame of the current video is announced (opencv_streamer.py:91-112).
AnnounceNext ==
    /\ session >= 1
    /\ \E readable \in BOOLEAN :
          Enqueue(FrameBody(session, lastName + 1, readable, FALSE))
    /\ lastName' = lastName + 1
    /\ UNCHANGED <<session, ackCount, pc, inflight, delivered, previous_frame,
                   previous_frame_path, connOpen, detections, compared, error,
                   outcome, lastDecoded, dispVars, ctlVars>>

\* A body that json.loads rejects reaches the frames queue.
PublishMalformed ==
    /\ Enqueue(MalformedBody)
    /\ UNCHANGED <<session, lastName, ackCount, pc, inflight, delivered,
                   previous_frame, previous_frame_path, connOpen, detections,
                   compared, error, outcome, lastDecoded, dispVars, ctlVars>>

(***************************************************************************)
(* OpenCVDetector.process_images                                           *)
(***************************************************************************)
\* lines 97-98 and 151-157: both connections open, the slot is emptied, the
\* consumer is registered with prefetch_count = 1.
StartDetector ==
    /\ pc = "init"
    /\ pc' = "consuming"
    /\ connOpen' = [frames |-> TRUE, detections |-> TRUE]
    /\ previous_frame' = NoFrame
    /\ previous_frame_path' = NoFrame
    /\ UNCHANGED <<framesQ, published, body, session, lastName, ackCount, inflight,
                   delivered, detections, compared, error, outcome, lastDecoded,
                   dispVars, ctlVars>>

\* lines 97-98: pika.BlockingConnection raises; nothing is caught there.  When
\* the second connect fails the first connection has been opened already.
ConnectFails ==
    /\ pc = "init"
    /\ \E second \in BOOLEAN :
          connOpen' = [frames |-> second, detections |-> FALSE]
    /\ error' = "AMQPConnectionError"
    /\ pc' = "crashed"
    /\ UNCHANGED <<framesQ, published, body, session, lastName, ackCount, inflight,
                   delivered, previous_frame, previous_frame_path, detections,
                   compared, outcome, lastDecoded, dispVars, ctlVars>>

\* The positions at which start_consuming (line 159) is running.
Running == {"consuming", "parse", "read", "ack_unreadable", "raise_unreadable",
            "detect", "update", "ack"}

\* The deliveries the broker has sent to the detector and that have not been
\* acknowledged.
Unacked == {id \in 1..published :
               /\ \A i \in 1..Len(framesQ) : framesQ[i] # id
               /\ ackCount[id] = 0}

\* basic_qos(prefetch_count=1) (line 154): the broker sends a delivery only
\* while fewer than prefetch_count are unacknowledged.
Unlimited(n) == TRUE
WithinPrefetch(n) == n < PrefetchCount

\* The broker sends the head of the frames queue to the consumer registered
\* at line 155, as long as its connection is open.
Deliver ==
    /\ pc \in Running
    /\ connOpen.frames
    /\ framesQ # <<>>
    /\ WithinPrefetch(Cardinality(Unacked))
    /\ delivered' = Append(delivered, Head(framesQ))
    /\ framesQ' = Tail(framesQ)
    /\ UNCHANGED <<published, body, session, lastName, ackCount, pc, inflight,
                   previous_frame, previous_frame_path, connOpen, detections,
                   compared, error, outcome, lastDecoded, dispVars, ctlVars>>

\* start_consuming (line 159) hands the next delivery received to callback.
Receive ==
    /\ pc = "consuming"
    /\ delivered # <<>>
    /\ inflight' = Head(delivered)
    /\ delivered' = Tail(delivered)
    /\ pc' = "parse"
    /\ UNCHANGED <<framesQ, published, body, session, lastName, ackCount,
                   previous_frame, previous_frame_path, connOpen, detections,
                   compared, error, outcome, lastDecoded, dispVars, ctlVars>>

\* lines 101-103: json.loads(body) and the two .get calls.
Parse ==
    /\ pc = "parse"
    /\ IF body[inflight].kind = "malformed"
         THEN /\ error' = "JSONDecodeError"
              /\ outcome' = [outcome EXCEPT ![inflight] = "raised"]
              /\ pc' = "unwind"
         ELSE /\ pc' = "read"
              /\ UNCHANGED <<error, outcome>>
    /\ UNCHANGED <<framesQ, published, body, session, lastName, ackCount, inflight,
                   delivered, previous_frame, previous_frame_path, connOpen,
                   detections, compared, lastDecoded, dispVars, ctlVars>>

\* lines 106-108: on None the delivery is acknowledged first, then the error
\* is raised.
RaisesUnacked(readable) == IF readable THEN "detect" ELSE "raise_unreadable"
IgnoresNone(readable) == "detect"
AfterImread(readable) == IF readable THEN "detect" ELSE "ack_unreadable"

\* lines 105-106: cv2.imread returns None for an image it cannot decode.
Read ==
    /\ pc = "read"
    /\ pc' = AfterImread(body[inflight].readable)
    /\ UNCHANGED <<framesQ, published, body, session, lastName, ackCount, inflight,
                   delivered, previous_frame, previous_frame_path, connOpen,
                   detections, compared, error, outcome, lastDecoded, dispVars,
                   ctlVars>>

\* line 107
AckUnreadable ==
    /\ pc = "ack_unreadable"
    /\ ackCount' = [ackCount EXCEPT ![inflight] = @ + 1]
    /\ pc' = "raise_unreadable"
    /\ UNCHANGED <<framesQ, published, body, session, lastName, inflight, delivered,
                   previous_frame, previous_frame_path, connOpen, detections,
                   compared, error, outcome, lastDecoded, dispVars, ctlVars>>

\* line 108
RaiseUnreadable ==
    /\ pc = "raise_unreadable"
    /\ error' = "ValueError"
    /\ outcome' = [outcome EXCEPT ![inflight] = "raised"]
    /\ pc' = "unwind"
    /\ UNCHANGED <<framesQ, published, body, session, lastName, ackCount, inflight,
                   delivered, previous_frame, previous_frame_path, connOpen,
                   detections, compared, lastDecoded, dispVars, ctlVars>>

\* What cv2.findContours (lines 121-122) may return for a pair of frames; a
\* contour is represented by its cv2.contourArea.
ContourLists == {<<>>, <<MinArea - 1>>, <<MinArea>>, <<MinArea + 1>>,
                 <<MinArea + 1, MinArea - 1>>}

\* line 126: the contours the loop skips.
AtOrBelow(area) == area <= MinArea
TooSmall(area) == area < MinArea

\* lines 123-129: the contours that are not skipped, in the order found.
Kept(cnts) == SelectSeq(cnts, LAMBDA area : ~TooSmall(area))

\* line 134: 'motion_detected': bool(contours)
MoreThanOne(contours) == Len(contours) > 1
MotionDetected(contours) == contours # <<>>

\* The record of lines 131-136; baseline is the frame in the slot it was
\* computed against, delivery the delivery that produced it, cnts what
\* findContours had returned.
MotionData(id, cnts) ==
    [frame_number |-> body[id].frame_number,
     frame_path |-> body[id].frame_path,
     motion_detected |-> MotionDetected(Kept(cnts)),
     contours |-> Kept(cnts),
     baseline |-> previous_frame,
     delivery |-> id,
     cnts |-> cnts]

\* lines 110-143: with a frame in the slot, the difference is computed and the
\* record published; basic_publish may raise.
Detect ==
    /\ pc = "detect"
    /\ IF previous_frame # NoFrame
         THEN /\ compared' = compared \cup {inflight}
              /\ \E publishOk \in BOOLEAN, cnts \in ContourLists :
                    IF publishOk
                      THEN /\ detections' = Append(detections,
                                                   MotionData(inflight, cnts))
                           /\ pc' = "update"
                           /\ UNCHANGED <<error, outcome>>
                      ELSE /\ error' = "AMQPError"
                           /\ outcome' = [outcome EXCEPT ![inflight] = "raised"]
                           /\ pc' = "unwind"
                           /\ UNCHANGED detections
         ELSE /\ pc' = "update"
              /\ UNCHANGED <<detections, compared, error, outcome>>
    /\ UNCHANGED <<framesQ, published, body, session, lastName, ackCount, inflight,
                   delivered, previous_frame, previous_frame_path, connOpen,
                   lastDecoded, dispVars, ctlVars>>

\* line 145: the condition under which the slot is overwritten.
UpdatesSlot(path) == FileName(path) = AnchorName

\* lines 145-147
Update ==
    /\ pc = "update"
    /\ IF UpdatesSlot(body[inflight].frame_path)
         THEN /\ previous_frame' = body[inflight].frame_path
              /\ previous_frame_path' = body[inflight].frame_path
          ELSE UNCHANGED <<previous_frame, previous_frame_path>>
    /\ pc' = "ack"
    /\ UNCHANGED <<framesQ, published, body, session, lastName, ackCount, inflight,
                   delivered, connOpen, detections, compared, error, outcome,
                   lastDecoded, dispVars, ctlVars>>

\* line 149, after which callback returns to start_consuming.
Ack ==
    /\ pc = "ack"
    /\ ackCount' = [ackCount EXCEPT ![inflight] = @ + 1]
    /\ outcome' = [outcome EXCEPT ![inflight] = "returned"]
    /\ lastDecoded' = body[inflight].frame_path
    /\ inflight' = NoMsg
    /\ pc' = "consuming"
    /\ UNCHANGED <<framesQ, delivered, published, body, session, lastName,
                   previous_frame, previous_frame_path, connOpen, detections,
                   compared, error, dispVars, ctlVars>>

\* lines 158-163: an exception raised by callback leaves start_consuming; it is
\* not a KeyboardInterrupt, so only the finally clause runs and the exception
\* leaves process_images (and src/src/detector/main.py:11).
Unwind ==
    /\ pc = "unwind"
    /\ connOpen' = [connOpen EXCEPT !.frames = FALSE]
    /\ pc' = "crashed"
    /\ UNCHANGED <<framesQ, published, body, session, lastName, ackCount, inflight,
                   delivered, previous_frame, previous_frame_path, detections,
                   compared, error, outcome, lastDecoded, dispVars, ctlVars>>

\* line 160: KeyboardInterrupt arrives while start_consuming runs.
Interrupt ==
    /\ pc \in Running
    /\ error' = "KeyboardInterrupt"
    /\ pc' = "stopping"
    /\ UNCHANGED <<framesQ, published, body, session, lastName, ackCount, inflight,
                   delivered, previous_frame, previous_frame_path, connOpen,
                   detections, compared, outcome, lastDecoded, dispVars, ctlVars>>

\* lines 161-163
StopDetector ==
    /\ pc = "stopping"
    /\ connOpen' = [connOpen EXCEPT !.frames = FALSE]
    /\ pc' = "closed"
    /\ UNCHANGED <<framesQ, published, body, session, lastName, ackCount, inflight,
                   delivered, previous_frame, previous_frame_path, detections,
                   compared, error, outcome, lastDecoded, dispVars, ctlVars>>

DetectorNext ==
    \/ AnnounceFirst \/ AnnounceNext \/ PublishMalformed
    \/ StartDetector \/ ConnectFails
    \/ Deliver \/ Receive \/ Parse \/ Read \/ AckUnreadable \/ RaiseUnreadable
    \/ Detect \/ Update \/ Ack \/ Unwind
    \/ Interrupt \/ StopDetector

(***************************************************************************)
(* The displayer                                                           *)
(***************************************************************************)
Players == 1..MaxPlays
RecIds == 1..MaxRecords

\* The displayer after __init__ (lines 40-47), apart from buffer_size.
Constructed ==
    /\ now = 0
    /\ dQ = <<>>
    /\ dPublished = 0
    /\ dFrame = [i \in RecIds |-> 0]
    /\ dAck = [i \in RecIds |-> 0]
    /\ dOutcome = [i \in RecIds |-> "none"]
    /\ buffer = <<>>
    /\ appended = <<>>
    /\ plays = 0
    /\ cpc = [p \in Players |-> "none"]
    /\ cIn = [p \in Players |-> NoMsg]
    /\ cConn = [p \in Players |-> FALSE]
    /\ ppc = [p \in Players |-> "none"]
    /\ nft = [p \in Players |-> 0]
    /\ released = <<>>
    /\ dqOwner = 0
    /\ stopReq = {}
    /\ stopped = FALSE

\* buffer_size as large as the exploration allows
DispInit == Constructed /\ buffer_size = BufferSize

\* any buffer_size from 1 up to that
DispInitAnySize == Constructed /\ buffer_size \in 1..BufferSize

\* time passes
Tick ==
    /\ now < MaxTime
    /\ now' = now + 1
    /\ UNCHANGED <<ctlVars, detVars, buffer_size, stopVars, brokerVars,
                   consumerVars, buffer, appended, plays, playVars>>

\* The frames named by the records published so far.
FramesPublished == {dFrame[i] : i \in 1..dPublished}

\* The deliveries that reached line 94 for frame f.
BufferedFor(f) == {i \in 1..dPublished : dFrame[i] = f /\ dOutcome[i] = "buffered"}

\* A body reaches the detections queue (opencv_detector.py:138-143, or any
\* other producer); it names a frame no earlier record named.
PublishRecord ==
    /\ dPublished < MaxRecords
    /\ dPublished' = dPublished + 1
    /\ dQ' = Append(dQ, dPublished + 1)
    /\ dFrame' = [dFrame EXCEPT ![dPublished + 1] = Cardinality(FramesPublished) + 1]
    /\ UNCHANGED <<ctlVars, detVars, buffer_size, stopVars, now, consumerVars,
                   buffer, appended, plays, playVars>>

\* The broker delivers again a record that __callback has already buffered
\* and acknowledged (the acknowledgement was lost with its connection, or the
\* producer published the record twice): a new delivery of the same body.
Redeliver ==
    /\ dPublished < MaxRecords
    /\ \E f \in FramesPublished :
          /\ BufferedFor(f) # {}
          /\ dFrame' = [dFrame EXCEPT ![dPublished + 1] = f]
    /\ dPublished' = dPublished + 1
    /\ dQ' = Append(dQ, dPublished + 1)
    /\ UNCHANGED <<ctlVars, detVars, buffer_size, stopVars, now, consumerVars,
                   buffer, appended, plays, playVars>>

\* displayer/main.py:26-28 and play lines 160-165: a request to /video runs
\* play() on the one displayer; the generator starts a consumer thread, reads
\* the clock into next_frame_time and calls sleep(3).
StartPlay ==
    /\ plays < MaxPlays
    /\ plays' = plays + 1
    /\ cpc' = [cpc EXCEPT ![plays + 1] = "connecting"]
    /\ ppc' = [ppc EXCEPT ![plays + 1] = "sleep"]
    /\ nft' = [nft EXCEPT ![plays + 1] = now]
    /\ UNCHANGED <<ctlVars, detVars, buffer_size, stopVars, now, brokerVars, dAck,
                   dOutcome, cIn, cConn, buffer, appended, released>>

\* __consumer lines 138-144; the connect may raise, which ends the thread
\* before the assignment to self.detections_queue.
ConsumerConnect(p) ==
    /\ cpc[p] = "connecting"
    /\ \E ok \in BOOLEAN :
          /\ cpc' = [cpc EXCEPT ![p] = IF ok THEN "consuming" ELSE "connect_failed"]
          /\ cConn' = [cConn EXCEPT ![p] = ok]
          /\ dqOwner' = IF ok THEN p ELSE dqOwner
    /\ UNCHANGED <<ctlVars, detVars, buffer_size, stopReq, stopped, now, brokerVars,
                   dAck, dOutcome, cIn, buffer, appended, plays, playVars>>

\* What __callback finds in a body: one json.loads rejects, a record whose
\* image cv2.imread cannot decode, or a record with a decodable image.
BodyKinds == {"malformed", "unreadable", "decodable"}

\* Where __callback goes on a body of kind k (lines 74-83): an exception leaves
\* __callback and start_consuming, nothing in __consumer (lines 137-148)
\* catches it and the thread ends; an undecodable image is logged and
\* acknowledged and __callback returns.
AfterReadRaising(k) == IF k = "decodable" THEN "append" ELSE "dead"
AcksUnbuffered(k) ==
    CASE k = "malformed" -> "dead"
      [] k = "unreadable" -> "consuming"
      [] OTHER -> "ack"
AfterRead(k) ==
    CASE k = "malformed" -> "dead"
      [] k = "unreadable" -> "consuming"
      [] OTHER -> "append"

\* line 146 and __callback lines 74-83: start_consuming hands the next
\* delivery to __callback (prefetch_count = 1 on this channel, line 140).
DReceive(p) ==
    /\ cpc[p] = "consuming"
    /\ p \notin stopReq
    /\ dQ # <<>>
    /\ dQ' = Tail(dQ)
    /\ \E k \in BodyKinds :
          /\ (k = "malformed") => (BufferedFor(dFrame[Head(dQ)]) = {})
          /\ cpc' = [cpc EXCEPT ![p] = AfterRead(k)]
          /\ cIn' = [cIn EXCEPT ![p] = IF k = "unreadable" THEN NoMsg ELSE Head(dQ)]
          /\ dAck' = [dAck EXCEPT ![Head(dQ)] = IF k = "unreadable" THEN @ + 1 ELSE @]
          /\ dOutcome' = [dOutcome EXCEPT ![Head(dQ)] =
                             CASE k = "malformed" -> "raised"
                               [] k = "unreadable" -> "dropped"
                               [] OTHER -> @]
    /\ UNCHANGED <<ctlVars, detVars, buffer_size, stopVars, now, dPublished, dFrame,
                   cConn, buffer, appended, plays, playVars>>

\* line 92: deque.append on a deque without maxlen adds at the back and
\* removes nothing.
AppendEvicting(b, f) == IF Len(b) >= buffer_size THEN Append(Tail(b), f) ELSE Append(b, f)
AppendUnlessPresent(b, f) == IF \E i \in 1..Len(b) : b[i] = f THEN b ELSE Append(b, f)
AppendBack(b, f) == Append(b, f)

\* lines 85-92: the frame is annotated and appended at the back.
DAppend(p) ==
    /\ cpc[p] = "append"
    /\ buffer' = AppendBack(buffer, dFrame[cIn[p]])
    /\ appended' = Append(appended, dFrame[cIn[p]])
    /\ cpc' = [cpc EXCEPT ![p] = "ack"]
    /\ UNCHANGED <<ctlVars, detVars, buffer_size, stopVars, now, brokerVars, dAck,
                   dOutcome, cIn, cConn, plays, playVars>>

\* line 94
DAck(p) ==
    /\ cpc[p] = "ack"
    /\ dAck' = [dAck EXCEPT ![cIn[p]] = @ + 1]
    /\ dOutcome' = [dOutcome EXCEPT ![cIn[p]] = "buffered"]
    /\ cIn' = [cIn EXCEPT ![p] = NoMsg]
    /\ cpc' = [cpc EXCEPT ![p] = "consuming"]
    /\ UNCHANGED <<ctlVars, detVars, buffer_size, stopVars, now, brokerVars, cConn,
                   buffer, appended, plays, playVars>>

\* line 165: sleep(3) returns once three seconds have passed.
Wake(p) ==
    /\ ppc[p] = "sleep"
    /\ now >= nft[p] + SleepTicks
    /\ ppc' = [ppc EXCEPT ![p] = "check"]
    /\ UNCHANGED <<ctlVars, detVars, buffer_size, stopVars, now, brokerVars,
                   consumerVars, buffer, appended, plays, nft, released>>

\* line 166: the loop condition of the drain loop.
KeepsDraining(len) == len >= buffer_size

\* line 167: the pacing condition.
Due(t, deadline) == t >= deadline

\* lines 166-167: when the loop condition fails the generator returns; when
\* the deadline has not come the loop goes round.
Check(p) ==
    /\ ppc[p] = "check"
    /\ ppc' = [ppc EXCEPT ![p] =
                  IF KeepsDraining(Len(buffer))
                    THEN IF Due(now, nft[p]) THEN "pop" ELSE "check"
                    ELSE "done"]
    /\ UNCHANGED <<ctlVars, detVars, buffer_size, stopVars, now, brokerVars,
                   consumerVars, buffer, appended, plays, nft, released>>

\* line 168 on a non-empty deque: popleft takes the front element.
PopsBack(b) == [frame |-> b[Len(b)], rest |-> SubSeq(b, 1, Len(b) - 1)]
Popleft(b) == [frame |-> Head(b), rest |-> Tail(b)]

\* line 173: next_frame_time += self.delay; the clock reading t plays no part.
NextDeadlineFromClock(deadline, t) == t + DelayTicks
NextDeadline(deadline, t) == deadline + DelayTicks

\* lines 168-173: popleft raises IndexError on an empty deque, which ends the
\* generator; otherwise the frame is yielded to the response stream and the
\* deadline moves on by self.delay.  (A buffered frame is never None: line 80
\* returns before the append.)
Release(p) ==
    /\ ppc[p] = "pop"
    /\ IF buffer = <<>>
         THEN /\ ppc' = [ppc EXCEPT ![p] = "crashed"]
              /\ UNCHANGED <<buffer, released, nft>>
         ELSE /\ buffer' = Popleft(buffer).rest
              /\ released' = Append(released,
                                 [frame |-> Popleft(buffer).frame, at |-> now, by |-> p,
                                  lenBefore |-> Len(buffer),
                                  afterStop |-> stopped])
              /\ nft' = [nft EXCEPT ![p] = NextDeadline(@, now)]
              /\ ppc' = [ppc EXCEPT ![p] = "check"]
    /\ UNCHANGED <<ctlVars, detVars, buffer_size, stopVars, now, brokerVars,
                   consumerVars, appended, plays>>

\* The consumer threads whose start_consuming() is running.
Consuming == {p \in Players : cpc[p] \in {"consuming", "append", "ack"}}

\* stop (lines 177-179): stop_consuming() on the channel self.detections_queue
\* refers to, which is the channel of the consumer thread that connected last;
\* nothing else is touched.
StopCall ==
    /\ ~stopped
    /\ stopped' = TRUE
    /\ stopReq' = IF dqOwner \in Consuming THEN stopReq \cup {dqOwner} ELSE stopReq
    /\ UNCHANGED <<ctlVars, detVars, buffer_size, dqOwner, now, brokerVars,
                   consumerVars, buffer, appended, plays, playVars>>

\* lines 146-148: after stop_consuming() the call of start_consuming() returns
\* once no callback is running, and the thread closes its connection.
ConsumerStop(p) ==
    /\ cpc[p] = "consuming"
    /\ p \in stopReq
    /\ stopReq' = stopReq \ {p}
    /\ cpc' = [cpc EXCEPT ![p] = "stopped"]
    /\ cConn' = [cConn EXCEPT ![p] = FALSE]
    /\ UNCHANGED <<ctlVars, detVars, buffer_size, dqOwner, stopped, now, brokerVars,
                   dAck, dOutcome, cIn, buffer, appended, plays, playVars>>

DisplayerNext ==
    \/ Tick \/ PublishRecord \/ Redeliver \/ StartPlay \/ StopCall
    \/ \E p \in Players :
          \/ ConsumerConnect(p) \/ DReceive(p) \/ DAppend(p) \/ DAck(p)
          \/ ConsumerStop(p)
          \/ Wake(p) \/ Check(p) \/ Release(p)

(***************************************************************************)
(* The streamer's controller                                               *)
(***************************************************************************)
\* Characters that \S rejects.
Whitespace == {" ", "\n"}

\* The literal part of HTTPS_URL_PATTERN (controller.py:5, main.py:17).
HttpsLiteral == <<"h", "t", "t", "p", "s", ":", "/", "/">>

\* HTTPS_URL_PATTERN.fullmatch(u) for "^https:\/\/\S+$": the literal, then one
\* or more non-whitespace characters up to the very end of the string.
FullMatch(u) ==
    /\ Len(u) > Len(HttpsLiteral)
    /\ SubSeq(u, 1, Len(HttpsLiteral)) = HttpsLiteral
    /\ \A i \in (Len(HttpsLiteral) + 1)..Len(u) : u[i] \notin Whitespace

\* Controller.__check_url (controller.py:21-31).  (With match in place of
\* fullmatch, $ would also accept a newline that ends the string.)
CheckUrlByMatch(u) ==
    \/ FullMatch(u)
    \/ /\ Len(u) > 0
       /\ u[Len(u)] = "\n"
       /\ FullMatch(SubSeq(u, 1, Len(u) - 1))
CheckUrl(u) == FullMatch(u)

\* The URLs tried: a scheme part followed by up to MaxTail characters.
SchemeParts == {<<>>, HttpsLiteral, <<"h", "t", "t", "p", ":", "/", "/">>,
                <<"H", "T", "T", "P", "S", ":", "/", "/">>, <<" ">> \o HttpsLiteral,
                <<"h", "t", "t", "p", "s", ":", "/">>}
TailChars == {"a", "/", " ", "\n"}
Tails == UNION {[1..n -> TailChars] : n \in 0..MaxTail}
Urls == {sp \o t : sp \in SchemeParts, t \in Tails}

CtlInit ==
    /\ url = <<>>
    /\ ctlPc = "idle"
    /\ ctlError = "none"
    /\ invoked = <<>>
    /\ folders = 0
    /\ frame_count = 0
    /\ announced = <<>>

\* Controller.process_url(u) is called (main.py:27-28, or any other caller).
Call(u) ==
    /\ ctlPc = "idle"
    /\ url' = u
    /\ ctlPc' = "check"
    /\ UNCHANGED <<detVars, dispVars, ctlError, invoked, folders, frame_count,
                   announced>>

\* controller.py:43-46: raise ValueError when the check fails, else call
\* self.model.process_url(url).
Validate ==
    /\ ctlPc = "check"
    /\ IF CheckUrl(url)
         THEN /\ invoked' = Append(invoked, url)
              /\ ctlPc' = "folder"
              /\ UNCHANGED ctlError
         ELSE /\ ctlError' = "ValueError"
              /\ ctlPc' = "raised"
              /\ UNCHANGED invoked
    /\ UNCHANGED <<detVars, dispVars, url, folders, frame_count, announced>>

\* opencv_streamer.py:74-76
MakeFolder ==
    /\ ctlPc = "folder"
    /\ folders' = folders + 1
    /\ ctlPc' = "open"
    /\ UNCHANGED <<detVars, dispVars, url, ctlError, invoked, frame_count,
                   announced>>

\* opencv_streamer.py:80-83: ValueError when the video cannot be opened; it
\* passes through Controller.process_url.
OpenVideo ==
    /\ ctlPc = "open"
    /\ \E opened \in BOOLEAN :
          /\ ctlPc' = IF opened THEN "connect" ELSE "raised"
          /\ ctlError' = IF opened THEN ctlError ELSE "ValueError"
    /\ UNCHANGED <<detVars, dispVars, url, invoked, folders, frame_count,
                   announced>>

\* opencv_streamer.py:85-89
Connect ==
    /\ ctlPc = "connect"
    /\ \E ok \in BOOLEAN :
          /\ ctlPc' = IF ok THEN "loop" ELSE "raised"
          /\ ctlError' = IF ok THEN ctlError ELSE "AMQPConnectionError"
    /\ UNCHANGED <<detVars, dispVars, url, invoked, folders, frame_count,
                   announced>>

\* opencv_streamer.py:91-112: one round of the loop; a frame read is written
\* and announced under the current frame_count.
ReadFrame ==
    /\ ctlPc = "loop"
    /\ \E success \in (IF frame_count < MaxFrames THEN BOOLEAN ELSE {FALSE}) :
          IF success
            THEN /\ announced' = Append(announced, frame_count)
                 /\ frame_count' = frame_count + 1
                 /\ UNCHANGED ctlPc
            ELSE /\ ctlPc' = "release"
                 /\ UNCHANGED <<announced, frame_count>>
    /\ UNCHANGED <<detVars, dispVars, url, ctlError, invoked, folders>>

\* opencv_streamer.py:114-117 and the return of Controller.process_url
Finish ==
    /\ ctlPc = "release"
    /\ ctlPc' = "returned"
    /\ UNCHANGED <<detVars, dispVars, url, ctlError, invoked, folders, frame_count,
                   announced>>

ControllerNext ==
    \/ \E u \in Urls : Call(u)
    \/ Validate \/ MakeFolder \/ OpenVideo \/ Connect \/ ReadFrame \/ Finish

Init == DetInit /\ DispInit /\ CtlInit

DetectorSpec == Init /\ [][DetectorNext]_vars

ControllerSpec == Init /\ [][ControllerNext]_vars

\* The detector and the displayer are separate processes (src/src/detector/main.py,
\* src/src/displayer/main.py) with no variable in common, so a property of
\* both consumers is checked over the runs of either from the initial state.
DetectorIdle == pc = "init" /\ published = 0
DisplayerIdle == plays = 0 /\ dPublished = 0 /\ now = 0 /\ ~stopped

ConsumersNext ==
    \/ DisplayerIdle /\ DetectorNext
    \/ DetectorIdle /\ DisplayerNext

ConsumersSpec == Init /\ [][ConsumersNext]_vars

DisplayerSpec == Init /\ [][DisplayerNext]_vars

\* The displayer constructed with any buffer_size, its play() calls and its
\* consumer threads; stop() is not called and the broker delivers every record
\* once.
InitAnySize == DetInit /\ DispInitAnySize /\ CtlInit

PlaysNext ==
    \/ Tick \/ PublishRecord \/ StartPlay
    \/ \E p \in Players :
          \/ ConsumerConnect(p) \/ DReceive(p) \/ DAppend(p) \/ DAck(p)
          \/ Wake(p) \/ Check(p) \/ Release(p)

PlaysSpec == InitAnySize /\ [][PlaysNext]_vars

(***************************************************************************)
(* Properties of the detector.                                             *)
(***************************************************************************)
\* The records published for delivery id.
RecordsOf(id) == {i \in 1..Len(detections) : detections[i].delivery = id}

\* C1: the first frame announcement of every video, a second video streamed
\* to the same detector included, causes no detection record to be published.
C1_FirstAnnouncementYieldsNoRecord ==
    \A id \in Ids : body[id].first => RecordsOf(id) = {}

\* C2: once the callback has run to completion on a decodable frame, the
\* previous-frame slot holds that frame.
C2_SlotHoldsLastProcessedFrame ==
    (pc = "consuming" /\ lastDecoded # NoFrame) => previous_frame = lastDecoded

\* C3: every decodable announcement that is not the first of its video and
\* whose callback returned has exactly one record, carrying its frame_number
\* and frame_path.
C3_OneRecordPerLaterFrame ==
    \A id \in Ids :
        (outcome[id] = "returned" /\ ~body[id].first) =>
            /\ Cardinality(RecordsOf(id)) = 1
            /\ \A i \in RecordsOf(id) :
                  /\ detections[i].frame_number = body[id].frame_number
                  /\ detections[i].frame_path = body[id].frame_path

\* C4: every delivery whose callback invocation has ended, normally or with an
\* exception, has been acknowledged exactly once.
C4_AckedExactlyOnce ==
    \A id \in Ids : outcome[id] # "none" => ackCount[id] = 1

\* C5: an undecodable frame does not terminate the detector stage.
C5_UnreadableDoesNotEndStage ==
    ~(pc = "crashed" /\ error = "ValueError")

(***************************************************************************)
(* Properties of the displayer.                                            *)
(***************************************************************************)
\* C6: in neither stage does an exception raised while one delivery is
\* processed end the stage's consumption (a failed connect at startup aside).
C6_DeliveryFailureDoesNotEndConsumption ==
    /\ ~(pc = "crashed" /\ error # "AMQPConnectionError")
    /\ \A p \in Players : cpc[p] # "dead"

\* C7: a renderer fed exactly buffer_size frames, whose drain loop has begun
\* to release them, does not stop before all of them are released.
C7_ReleasesAllWhenFedExactlyN ==
    \A p \in Players :
        (/\ plays = 1
         /\ dPublished = BufferSize
         /\ Len(appended) = BufferSize
         /\ released # <<>>
         /\ ppc[p] = "done")
            => Len(released) = BufferSize

\* C8: an underfull buffer only stalls playback: the drain loop never ends
\* because of it.
C8_UnderfullOnlyStalls ==
    \A p \in Players : ppc[p] # "done"

\* C9: two frames released by the same drain loop are released at least
\* delay apart.
C9_ReleasesSpacedByDelay ==
    \A i, j \in 1..Len(released) :
        (i < j /\ released[i].by = released[j].by) =>
            released[j].at - released[i].at >= DelayTicks

\* C10: whenever a frame is released, the buffer held at least buffer_size
\* frames immediately before the release.
C10_ReleaseOnlyAtFillLevel ==
    \A i \in 1..Len(released) : released[i].lenBefore >= BufferSize

\* The frames released so far, in release order.
ReleasedFrames == [i \in 1..Len(released) |-> released[i].frame]

\* C11: in every interleaving of the receiving threads and the drain loops the
\* sequence of released frames is a prefix of the sequence of appended frames:
\* no frame is skipped, reordered or repeated relative to arrival order.
C11_ReleasedIsPrefixOfAppended ==
    /\ Len(released) <= Len(appended)
    /\ ReleasedFrames = SubSeq(appended, 1, Len(released))

\* Two frames were released while a later frame had already arrived.
C11_Witness ==
    /\ Len(released) >= 2
    /\ Len(appended) > Len(released)

\* C12: once stop() has been called, the drain loop of play() releases no
\* further frame.
C12_NoReleaseAfterStop ==
    \A i \in 1..Len(released) : ~released[i].afterStop

\* C13 as stated: the buffer never holds more than buffer_size frames.
C13_LengthWithinCapacity == Len(buffer) <= BufferSize

\* C13, amended: an append never blocks, drops or evicts, so the buffer holds
\* exactly the appended frames that have not been released yet, however many
\* these are.
C13_BufferHoldsAllUnreleased ==
    /\ Len(released) <= Len(appended)
    /\ buffer = SubSeq(appended, Len(released) + 1, Len(appended))

\* The buffer holds more than buffer_size frames.
C13_Witness == Len(buffer) > BufferSize

\* The releases made by the drain loop of play p.
ReleasesBy(p) == {i \in 1..Len(released) : released[i].by = p}

\* C14: once play p has set its next_frame_time, the value never decreases
\* and changes only in a step in which p releases a frame, and then by
\* exactly delay.
C14_DeadlineMovesOnlyOnRelease ==
    [][\A p \in Players :
          (ppc[p] # "none" /\ nft'[p] # nft[p]) =>
              /\ nft'[p] > nft[p]
              /\ nft'[p] = nft[p] + DelayTicks
              /\ Len(released') = Len(released) + 1
              /\ released'[Len(released')].by = p]_vars

\* A drain loop has released two frames, so its deadline has moved twice.
C14_Witness == \E p \in Players : Cardinality(ReleasesBy(p)) >= 2

\* The deliveries whose image __callback could not decode.
Dropped == {id \in RecIds : dOutcome[id] = "dropped"}

\* C15: a detection record whose image cannot be decoded is acknowledged
\* exactly once; the step in which __callback handles it leaves the buffer
\* as it was and leaves every consumer thread where it was, the receiving one
\* waiting for the next delivery.
C15_UndecodableIsAckedAndSkipped ==
    /\ [](\A id \in Dropped : dAck[id] = 1)
    /\ [][\A id \in RecIds :
            (dOutcome[id] # "dropped" /\ dOutcome'[id] = "dropped") =>
                /\ dAck[id] = 0
                /\ buffer' = buffer
                /\ appended' = appended
                /\ cpc' = cpc
                /\ \E p \in Players : cpc'[p] = "consuming" /\ cIn'[p] = NoMsg]_vars

\* A record was dropped for its image and a later one was buffered.
C15_Witness ==
    \E id \in Dropped : \E j \in RecIds : j > id /\ dOutcome[j] = "buffered"

\* C16: when __callback appends the frame of a record that was already
\* buffered and acknowledged under an earlier delivery, the buffer gains one
\* more instance of the frame at the back and the frames it already held
\* keep their places.
C16_RedeliveryAppendsAgain ==
    [][\A p \in Players :
          (/\ cpc[p] = "append"
           /\ cpc'[p] = "ack"
           /\ BufferedFor(dFrame[cIn[p]]) # {}) =>
              buffer' = buffer \o <<dFrame[cIn[p]]>>]_vars

\* The buffer holds two instances of one frame.
C16_Witness ==
    \E i, j \in 1..Len(buffer) : i < j /\ buffer[i] = buffer[j]

\* C24: for every buffer_size of at least 1 no drain loop pops from an empty
\* buffer, several play() calls on the one displayer included.
C24_NoPopFromEmptyBuffer ==
    /\ \A p \in Players : ppc[p] # "crashed"
    /\ \A i \in 1..Len(released) : released[i].lenBefore >= 1

(***************************************************************************)
(* Further properties of the detector.                                     *)
(***************************************************************************)
\* C18: in the step in which the detector raises the error for an undecodable
\* frame, the delivery has been acknowledged already, once, and the step
\* itself acknowledges nothing.
C18_AckPrecedesRaise ==
    [][(error # "ValueError" /\ error' = "ValueError") =>
          /\ inflight # NoMsg
          /\ ~body[inflight].readable
          /\ ackCount[inflight] = 1
          /\ ackCount' = ackCount]_vars

\* The error for an undecodable frame has been raised.
C18_Witness ==
    /\ error = "ValueError"
    /\ inflight # NoMsg
    /\ outcome[inflight] = "raised"

\* C19: at most one delivery of the frames queue is received and not yet
\* acknowledged, and while callback works on an unacknowledged delivery that
\* delivery is the only one.
C19_OneDeliveryAtATime ==
    /\ Cardinality(Unacked) <= 1
    /\ (inflight # NoMsg /\ ackCount[inflight] = 0) => Unacked = {inflight}
    /\ Len(delivered) <= 1

\* A second announcement waits in the queue while callback works on an
\* unacknowledged delivery.
C19_Witness ==
    /\ pc \in {"parse", "read", "detect", "update", "ack"}
    /\ ackCount[inflight] = 0
    /\ framesQ # <<>>

\* C20 as stated: no detection record lists a contour whose area is exactly
\* the minimum area.
C20_ThresholdAreaExcluded ==
    \A i \in 1..Len(detections) :
        \A j \in 1..Len(detections[i].contours) :
            detections[i].contours[j] # MinArea

\* C20, amended: a detection record lists exactly the contours found whose
\* area is at least the minimum area, in the order found, so a contour of
\* exactly that area is listed.
C20_KeepsAreaAtLeastThreshold ==
    \A i \in 1..Len(detections) :
        detections[i].contours =
            SelectSeq(detections[i].cnts, LAMBDA area : area >= MinArea)

\* A record lists a contour whose area is exactly the minimum area.
C20_Witness ==
    \E i \in 1..Len(detections) :
        /\ detections[i].cnts = <<MinArea>>
        /\ detections[i].contours = <<MinArea>>

\* C21: in every detection record motion_detected is true exactly when the
\* list of regions is non-empty; for a frame pair with a single changed region
\* it is false when the area is one below the minimum area and true when the
\* area is the minimum area or more.
C21_MotionIffRegionSurvives ==
    \A i \in 1..Len(detections) :
        /\ detections[i].motion_detected <=> (Len(detections[i].contours) >= 1)
        /\ Len(detections[i].cnts) = 1 =>
              /\ (detections[i].cnts[1] = MinArea - 1) => ~detections[i].motion_detected
              /\ (detections[i].cnts[1] >= MinArea) => detections[i].motion_detected

\* One record was computed from a single region one below the minimum area,
\* another from a single region of exactly the minimum area.
C21_Witness ==
    \E i, j \in 1..Len(detections) :
        /\ detections[i].cnts = <<MinArea - 1>>
        /\ ~detections[i].motion_detected
        /\ detections[j].cnts = <<MinArea>>
        /\ detections[j].motion_detected

\* C23: once the detector has stopped, on an interrupt or on an error that
\* left the consume loop, neither connection opened in process_images is
\* open.
C23_BothConnectionsClosedAtEnd ==
    (pc \in {"closed", "crashed"} /\ error # "AMQPConnectionError") =>
        /\ ~connOpen.frames
        /\ ~connOpen.detections

\* C25: a delivery whose image cannot be decoded never has a detection record,
\* and no step taken while callback works on it changes previous_frame,
\* previous_frame_path or the records published.
C25_UndecodableLeavesSlotAndOutput ==
    /\ [](\A id \in 1..published :
             (body[id].kind = "frame" /\ ~body[id].readable) => RecordsOf(id) = {})
    /\ [][(/\ pc \in Running
           /\ inflight # NoMsg
           /\ body[inflight].kind = "frame"
           /\ ~body[inflight].readable)
          => /\ previous_frame' = previous_frame
             /\ previous_frame_path' = previous_frame_path
             /\ detections' = detections]_vars

\* The error for an undecodable frame ended the stage while the slot held a
\* frame and a record had been published before.
C25_Witness ==
    /\ pc = "crashed"
    /\ error = "ValueError"
    /\ ~body[inflight].readable
    /\ previous_frame # NoFrame
    /\ detections # <<>>

(***************************************************************************)
(* Properties of the streamer's controller.                                *)
(***************************************************************************)
\* C17: once Controller.process_url has checked a URL that does not match
\* the HTTPS pattern it has raised ValueError, the model's process_url was
\* never invoked, no folder was created, no frame written and no announcement
\* published; once it has checked a matching URL, the model's process_url
\* has been invoked exactly once, with that URL.
C17_RejectsBeforeAnyEffect ==
    ctlPc \notin {"idle", "check"} =>
        IF FullMatch(url)
          THEN invoked = <<url>>
          ELSE /\ ctlPc = "raised"
               /\ ctlError = "ValueError"
               /\ invoked = <<>>
               /\ folders = 0
               /\ frame_count = 0
               /\ announced = <<>>

\* A URL that starts with the literal but does not match was rejected.
C17_Witness ==
    /\ ctlPc = "raised"
    /\ Len(url) > Len(HttpsLiteral)
    /\ SubSeq(url, 1, Len(HttpsLiteral)) = HttpsLiteral
    /\ ~FullMatch(url)

(***************************************************************************)
(* Properties of both consumers.                                           *)
(***************************************************************************)
\* How often frame f occurs in the sequence q.
Occurrences(q, f) == Cardinality({i \in 1..Len(q) : q[i] = f})

\* The acknowledged deliveries of the detections queue that named frame f
\* and whose image could be decoded.
AckedDecodable(f) ==
    {id \in 1..dPublished :
        dFrame[id] = f /\ dAck[id] >= 1 /\ dOutcome[id] # "dropped"}

\* C22: in the detector a decodable delivery that found a frame in the slot
\* is acknowledged only once its record has been published; in the displayer
\* every acknowledged decodable delivery has had its frame appended.  No
\* delivery of either kind is acknowledged but unprocessed.
C22_AckOnlyAfterProcessing ==
    /\ \A id \in compared : ackCount[id] >= 1 => RecordsOf(id) # {}
    /\ \A f \in FramesPublished :
          Cardinality(AckedDecodable(f)) <= Occurrences(appended, f)

\* The detector stopped after publishing a record and before acknowledging
\* its delivery.
C22_Witness ==
    /\ pc = "closed"
    /\ inflight \in compared
    /\ RecordsOf(inflight) # {}
    /\ ackCount[inflight] = 0

====
